---------------------------- MODULE Spec2Model ----------------------------
(***************************************************************************)
(* NDKarte: EGL display/surface lifecycle and event loop of               *)
(* app/src/main/cpp/main.c.                                                *)
(*                                                                         *)
(* The application thread runs android_main: it polls the host looper,     *)
(* dispatches each item to handle_cmd / handle_input, leaves on            *)
(* destroyRequested, and renders one frame per outer iteration while       *)
(* focused.  The host (the activity thread behind android_native_app_glue) *)
(* appends commands and input notifications to the looper at any time.     *)
(*                                                                         *)
(* Each step of the application thread is one action; the EGL / GL calls   *)
(* a step issues are recorded, in order, in ops.                           *)
(***************************************************************************)
EXTENDS Integers, Sequences, FiniteSets

\* ---------------------------------------------------------------- bounds
\* Number of items the host looper can hold undelivered.
MaxQueue == 1
\* Number of distinct surface handles, and of context handles, the EGL
\* provider can have alive at once; a create call with none free fails.
MaxHandles == 2

\* ------------------------------------------------------------- constants
\* EGL_NO_DISPLAY / EGL_NO_SURFACE / EGL_NO_CONTEXT, and app->window == NULL
NONE == 0
\* the handle eglGetDisplay(EGL_DEFAULT_DISPLAY) returns
DefaultDisplay == 1
\* the native window the host hands over with APP_CMD_INIT_WINDOW
Window == 1
Handles == 1..MaxHandles

\* timeouts handed to ALooper_pollAll
NonBlocking == 0
Blocking == -1

\* lifecycle commands of the glue that handle_cmd switches on; APP_CMD_OTHER
\* stands for every command that takes the default branch
Commands ==
    {"APP_CMD_INIT_WINDOW", "APP_CMD_TERM_WINDOW", "APP_CMD_GAINED_FOCUS",
     "APP_CMD_LOST_FOCUS", "APP_CMD_PAUSE", "APP_CMD_RESUME",
     "APP_CMD_DESTROY", "APP_CMD_OTHER"}

\* what a poll can hand back: a command, an input notification, or an
\* identifier with no poll source attached (source == NULL)
Items == Commands \cup {"INPUT", "NULL_SOURCE"}
NoItem == "none"

\* input events: motion events by masked action (DOWN, UP, MOVE, another
\* action code), and a non-motion event
InputEvents == {"MOTION_DOWN", "MOTION_UP", "MOTION_MOVE", "MOTION_OTHER", "KEY"}

\* the step of init_display at which the provider refuses; 0 is none
FailSteps == 0..6
\* surface size eglQuerySurface reports (the target panel, 1920x1200)
Dims == {<<1920, 1200>>}

VARIABLES
    state,            \* AppState
    egl,              \* the provider: open connection, live surfaces, contexts
    destroyRequested, \* app->destroyRequested
    queue,            \* items pending in the host looper
    pc,               \* position of android_main
    cur,              \* item returned by the poll under dispatch
    ops,              \* EGL / GL calls issued by the latest step
    initResult,       \* outcome of init_display in the latest step
    consumed,         \* return value of handle_input in the latest step
    sinceLost         \* a LOST_FOCUS was dispatched, no GAINED_FOCUS since

vars == <<state, egl, destroyRequested, queue, pc, cur, ops, initResult,
          consumed, sinceLost>>

\* ------------------------------------------------------------ AppState
AppState0 ==
    [display |-> NONE, surface |-> NONE, context |-> NONE,
     width |-> 0, height |-> 0, initialized |-> FALSE, has_focus |-> FALSE]

Egl0 == [open |-> FALSE, surfaces |-> {}, contexts |-> {}]

Min(S) == CHOOSE x \in S : \A y \in S : x <= y

\* handle a create call returns: the least handle not alive, NONE if
\* the provider has none left
Fresh(live) == IF Handles \ live = {} THEN NONE ELSE Min(Handles \ live)

\* the step at which init_display returns false (0: it returns true), given
\* the step f at which the provider refuses
FailStep(e, f) ==
    IF f \in 1..3 THEN f
    ELSE IF f = 4 \/ Fresh(e.surfaces) = NONE THEN 4
    ELSE IF f = 5 \/ Fresh(e.contexts) = NONE THEN 5
    ELSE f

InitCalls ==
    <<"eglGetDisplay", "eglInitialize", "eglChooseConfig",
      "eglCreateWindowSurface", "eglCreateContext", "eglMakeCurrent",
      "eglQuerySurface", "eglQuerySurface", "glViewport">>

\* init_display: each step stores its handle into the state before testing
\* it, and every failure returns false at once
init_display(s, e, f, dim) ==
    LET k == FailStep(e, f)
        surf == Fresh(e.surfaces)
        ctx == Fresh(e.contexts)
    IN  [state |->
            [s EXCEPT
                !.display = IF k = 1 THEN NONE ELSE DefaultDisplay,
                !.surface = IF k \in 1..3 THEN @
                            ELSE IF k = 4 THEN NONE ELSE surf,
                !.context = IF k \in 1..4 THEN @
                            ELSE IF k = 5 THEN NONE ELSE ctx,
                !.width = IF k = 0 THEN dim[1] ELSE @,
                !.height = IF k = 0 THEN dim[2] ELSE @,
                !.initialized = IF k = 0 THEN TRUE ELSE @],
         egl |->
            [open |-> IF k \in 1..2 THEN e.open ELSE TRUE,
             surfaces |-> IF k \in 1..4 THEN e.surfaces
                          ELSE e.surfaces \cup {surf},
             contexts |-> IF k \in 1..5 THEN e.contexts
                          ELSE e.contexts \cup {ctx}],
         ops |-> IF k = 0 THEN InitCalls ELSE SubSeq(InitCalls, 1, k),
         ret |-> (k = 0)]

\* terminate_display without the reset of the display handle
terminate_display_keeps_display(s, e) ==
    [state |->
        [s EXCEPT !.surface = NONE, !.context = NONE, !.initialized = FALSE],
     egl |->
        IF s.display # NONE
        THEN [open |-> FALSE,
              surfaces |-> e.surfaces \ {s.surface},
              contexts |-> e.contexts \ {s.context}]
        ELSE e,
     ops |->
        IF s.display # NONE
        THEN <<"eglMakeCurrent">>
             \o (IF s.context # NONE THEN <<"eglDestroyContext">> ELSE <<>>)
             \o (IF s.surface # NONE THEN <<"eglDestroySurface">> ELSE <<>>)
             \o <<"eglTerminate">>
        ELSE <<>>]

\* terminate_display that only resets the fields, destroying nothing
terminate_display_no_destroy(s, e) ==
    [state |->
        [s EXCEPT !.display = NONE, !.surface = NONE, !.context = NONE,
                  !.initialized = FALSE],
     egl |-> e,
     ops |-> <<>>]

\* terminate_display
terminate_display(s, e) ==
    [state |->
        [s EXCEPT !.display = NONE, !.surface = NONE, !.context = NONE,
                  !.initialized = FALSE],
     egl |->
        IF s.display # NONE
        THEN [open |-> FALSE,
              surfaces |-> e.surfaces \ {s.surface},
              contexts |-> e.contexts \ {s.context}]
        ELSE e,
     ops |->
        IF s.display # NONE
        THEN <<"eglMakeCurrent">>
             \o (IF s.context # NONE THEN <<"eglDestroyContext">> ELSE <<>>)
             \o (IF s.surface # NONE THEN <<"eglDestroySurface">> ELSE <<>>)
             \o <<"eglTerminate">>
        ELSE <<>>]

\* render_frame without the test of initialized
render_frame_unguarded(s) ==
    <<"glClearColor", "glClear", "eglSwapBuffers">>

\* render_frame: the calls it issues; it assigns nothing
render_frame(s) ==
    IF ~s.initialized
    THEN <<>>
    ELSE <<"glClearColor", "glClear", "eglSwapBuffers">>

\* the branches of handle_cmd other than the two focus commands
handle_window_cmd(s, e, win, cmd, f, dim) ==
    CASE cmd = "APP_CMD_INIT_WINDOW" /\ win # NONE ->
            LET r == init_display(s, e, f, dim)
            IN  [state |-> r.state, egl |-> r.egl, ops |-> r.ops,
                 init |-> IF r.ret THEN "ok" ELSE "failed"]
      [] cmd = "APP_CMD_TERM_WINDOW" ->
            LET r == terminate_display(s, e)
            IN  [state |-> r.state, egl |-> r.egl, ops |-> r.ops,
                 init |-> "none"]
      [] OTHER ->
            [state |-> s, egl |-> e, ops |-> <<>>, init |-> "none"]

\* handle_cmd rendering a frame on APP_CMD_GAINED_FOCUS as well
handle_cmd_render_on_gain(s, e, win, cmd, f, dim) ==
    CASE cmd = "APP_CMD_GAINED_FOCUS" ->
            LET s1 == [s EXCEPT !.has_focus = TRUE]
            IN  [state |-> s1, egl |-> e, ops |-> render_frame(s1),
                 init |-> "none"]
      [] cmd = "APP_CMD_LOST_FOCUS" ->
            LET s1 == [s EXCEPT !.has_focus = FALSE]
            IN  [state |-> s1, egl |-> e, ops |-> render_frame(s1),
                 init |-> "none"]
      [] OTHER -> handle_window_cmd(s, e, win, cmd, f, dim)

\* handle_cmd without the render_frame call of APP_CMD_LOST_FOCUS
handle_cmd_no_flush(s, e, win, cmd, f, dim) ==
    CASE cmd = "APP_CMD_GAINED_FOCUS" ->
            [state |-> [s EXCEPT !.has_focus = TRUE], egl |-> e,
             ops |-> <<>>, init |-> "none"]
      [] cmd = "APP_CMD_LOST_FOCUS" ->
            [state |-> [s EXCEPT !.has_focus = FALSE], egl |-> e,
             ops |-> <<>>, init |-> "none"]
      [] OTHER -> handle_window_cmd(s, e, win, cmd, f, dim)

\* handle_cmd dropping the focus when the window goes away
handle_cmd_term_drops_focus(s, e, win, cmd, f, dim) ==
    CASE cmd = "APP_CMD_TERM_WINDOW" ->
            LET r == terminate_display(s, e)
            IN  [state |-> [r.state EXCEPT !.has_focus = FALSE],
                 egl |-> r.egl, ops |-> r.ops, init |-> "none"]
      [] cmd = "APP_CMD_GAINED_FOCUS" ->
            [state |-> [s EXCEPT !.has_focus = TRUE], egl |-> e,
             ops |-> <<>>, init |-> "none"]
      [] cmd = "APP_CMD_LOST_FOCUS" ->
            LET s1 == [s EXCEPT !.has_focus = FALSE]
            IN  [state |-> s1, egl |-> e, ops |-> render_frame(s1),
                 init |-> "none"]
      [] OTHER -> handle_window_cmd(s, e, win, cmd, f, dim)

\* handle_cmd releasing the display on APP_CMD_PAUSE
handle_cmd_pause_releases(s, e, win, cmd, f, dim) ==
    CASE cmd = "APP_CMD_PAUSE" ->
            LET r == terminate_display(s, e)
            IN  [state |-> r.state, egl |-> r.egl, ops |-> r.ops,
                 init |-> "none"]
      [] cmd = "APP_CMD_GAINED_FOCUS" ->
            [state |-> [s EXCEPT !.has_focus = TRUE], egl |-> e,
             ops |-> <<>>, init |-> "none"]
      [] cmd = "APP_CMD_LOST_FOCUS" ->
            LET s1 == [s EXCEPT !.has_focus = FALSE]
            IN  [state |-> s1, egl |-> e, ops |-> render_frame(s1),
                 init |-> "none"]
      [] OTHER -> handle_window_cmd(s, e, win, cmd, f, dim)

\* handle_cmd calling init_display whatever app->window is
handle_cmd_ignores_null_window(s, e, win, cmd, f, dim) ==
    CASE cmd = "APP_CMD_GAINED_FOCUS" ->
            [state |-> [s EXCEPT !.has_focus = TRUE], egl |-> e,
             ops |-> <<>>, init |-> "none"]
      [] cmd = "APP_CMD_LOST_FOCUS" ->
            LET s1 == [s EXCEPT !.has_focus = FALSE]
            IN  [state |-> s1, egl |-> e, ops |-> render_frame(s1),
                 init |-> "none"]
      [] OTHER -> handle_window_cmd(s, e, Window, cmd, f, dim)

\* handle_cmd; win is the value of app->window at the call
handle_cmd(s, e, win, cmd, f, dim) ==
    CASE cmd = "APP_CMD_INIT_WINDOW" ->
            IF win # NONE
            THEN LET r == init_display(s, e, f, dim)
                 IN  [state |-> r.state, egl |-> r.egl, ops |-> r.ops,
                      init |-> IF r.ret THEN "ok" ELSE "failed"]
            ELSE [state |-> s, egl |-> e, ops |-> <<>>, init |-> "none"]
      [] cmd = "APP_CMD_TERM_WINDOW" ->
            LET r == terminate_display(s, e)
            IN  [state |-> r.state, egl |-> r.egl, ops |-> r.ops,
                 init |-> "none"]
      [] cmd = "APP_CMD_GAINED_FOCUS" ->
            [state |-> [s EXCEPT !.has_focus = TRUE], egl |-> e,
             ops |-> <<>>, init |-> "none"]
      [] cmd = "APP_CMD_LOST_FOCUS" ->
            LET s1 == [s EXCEPT !.has_focus = FALSE]
            IN  [state |-> s1, egl |-> e, ops |-> render_frame(s1),
                 init |-> "none"]
      [] OTHER ->
            [state |-> s, egl |-> e, ops |-> <<>>, init |-> "none"]

\* handle_input consuming only the motion events whose action it knows
handle_input_known_actions(event) ==
    IF event \in {"MOTION_DOWN", "MOTION_UP", "MOTION_MOVE"}
    THEN 1
    ELSE 0

\* handle_input: 1 for a motion event, 0 otherwise
handle_input(event) ==
    IF event \in {"MOTION_DOWN", "MOTION_UP", "MOTION_MOVE", "MOTION_OTHER"}
    THEN 1
    ELSE 0

\* ------------------------------------------------------------------ Init
Init ==
    /\ state = AppState0
    /\ egl = Egl0
    /\ destroyRequested = FALSE
    /\ queue = <<>>
    /\ pc = "poll"
    /\ cur = NoItem
    /\ ops = <<>>
    /\ initResult = "none"
    /\ consumed = -1
    /\ sinceLost = FALSE

\* --------------------------------------------------------------- actions
\* The host writes a command to the command pipe, signals the input queue,
\* or makes another looper identifier ready.
HostDeliver ==
    /\ Len(queue) < MaxQueue
    /\ \E item \in Items : queue' = Append(queue, item)
    /\ UNCHANGED <<state, egl, destroyRequested, pc, cur,
                   ops, initResult, consumed, sinceLost>>

\* a poll that never blocks
PollTimeout_AlwaysZero(s) == NonBlocking

\* a poll that always blocks
PollTimeout_AlwaysBlocking(s) == Blocking

\* the timeout of the poll: state.has_focus ? 0 : -1
PollTimeout(s) == IF s.has_focus THEN NonBlocking ELSE Blocking

\* ALooper_pollAll returns an item (>= 0)
PollItem ==
    /\ pc = "poll"
    /\ queue # <<>>
    /\ cur' = Head(queue)
    /\ queue' = Tail(queue)
    /\ pc' = "process"
    /\ ops' = <<>>
    /\ initResult' = "none"
    /\ consumed' = -1
    /\ UNCHANGED <<state, egl, destroyRequested, sinceLost>>

\* ALooper_pollAll with timeout 0 finds nothing and returns
\* ALOOPER_POLL_TIMEOUT (< 0): the inner loop ends.  With timeout -1 and
\* nothing pending the call does not return.
PollTimedOut ==
    /\ pc = "poll"
    /\ queue = <<>>
    /\ PollTimeout(state) = NonBlocking
    /\ pc' = "render"
    /\ ops' = <<>>
    /\ initResult' = "none"
    /\ consumed' = -1
    /\ UNCHANGED <<state, egl, destroyRequested, queue, cur,
                   sinceLost>>

\* source->process(app, source) for the command source: the glue sets
\* destroyRequested before APP_CMD_DESTROY and calls onAppCmd = handle_cmd;
\* win is the value the host has put in app->window by then
ProcessCmd ==
    /\ pc = "process"
    /\ cur \in Commands
    /\ \E win \in {NONE, Window}, f \in FailSteps, dim \in Dims :
          LET r == handle_cmd(state, egl, win, cur, f, dim)
          IN  /\ state' = r.state
              /\ egl' = r.egl
              /\ ops' = r.ops
              /\ initResult' = r.init
    /\ destroyRequested' = (destroyRequested \/ cur = "APP_CMD_DESTROY")
    /\ sinceLost' = IF cur = "APP_CMD_LOST_FOCUS" THEN TRUE
                    ELSE IF cur = "APP_CMD_GAINED_FOCUS" THEN FALSE
                    ELSE sinceLost
    /\ consumed' = -1
    /\ pc' = "check"
    /\ UNCHANGED <<queue, cur>>

\* source->process(app, source) for the input source: onInputEvent =
\* handle_input is called with the event read from the input queue, which
\* cur names from then on
ProcessInput ==
    /\ pc = "process"
    /\ cur = "INPUT"
    /\ \E event \in InputEvents :
          /\ consumed' = handle_input(event)
          /\ cur' = event
    /\ ops' = <<>>
    /\ initResult' = "none"
    /\ pc' = "check"
    /\ UNCHANGED <<state, egl, destroyRequested, queue, sinceLost>>

\* source == NULL: nothing is processed
ProcessNone ==
    /\ pc = "process"
    /\ cur = "NULL_SOURCE"
    /\ ops' = <<>>
    /\ initResult' = "none"
    /\ consumed' = -1
    /\ pc' = "check"
    /\ UNCHANGED <<state, egl, destroyRequested, queue, cur,
                   sinceLost>>

\* the check without the return: the loop goes on after the release
CheckDestroy_NoReturn ==
    /\ pc = "check"
    /\ IF destroyRequested
       THEN LET r == terminate_display(state, egl)
            IN  /\ state' = r.state
                /\ egl' = r.egl
                /\ ops' = r.ops
       ELSE /\ ops' = <<>>
            /\ UNCHANGED <<state, egl>>
    /\ pc' = "poll"
    /\ cur' = NoItem
    /\ initResult' = "none"
    /\ consumed' = -1
    /\ UNCHANGED <<destroyRequested, queue, sinceLost>>

\* the check without the release: the loop is left as it is
CheckDestroy_NoRelease ==
    /\ pc = "check"
    /\ pc' = IF destroyRequested THEN "done" ELSE "poll"
    /\ ops' = <<>>
    /\ cur' = NoItem
    /\ initResult' = "none"
    /\ consumed' = -1
    /\ UNCHANGED <<state, egl, destroyRequested, queue,
                   sinceLost>>

\* the check taking a failed init_display for a reason to leave as well
CheckDestroy_ExitOnFailure ==
    /\ pc = "check"
    /\ IF destroyRequested \/ initResult = "failed"
       THEN LET r == terminate_display(state, egl)
            IN  /\ state' = r.state
                /\ egl' = r.egl
                /\ ops' = r.ops
                /\ pc' = "done"
       ELSE /\ pc' = "poll"
            /\ ops' = <<>>
            /\ UNCHANGED <<state, egl>>
    /\ cur' = NoItem
    /\ initResult' = "none"
    /\ consumed' = -1
    /\ UNCHANGED <<destroyRequested, queue, sinceLost>>

\* if (app->destroyRequested) { terminate_display(&state); return; }
CheckDestroy ==
    /\ pc = "check"
    /\ IF destroyRequested
       THEN LET r == terminate_display(state, egl)
            IN  /\ state' = r.state
                /\ egl' = r.egl
                /\ ops' = r.ops
                /\ pc' = "done"
       ELSE /\ pc' = "poll"
            /\ ops' = <<>>
            /\ UNCHANGED <<state, egl>>
    /\ cur' = NoItem
    /\ initResult' = "none"
    /\ consumed' = -1
    /\ UNCHANGED <<destroyRequested, queue, sinceLost>>

\* the render step calling render_frame twice
Render_Twice ==
    /\ pc = "render"
    /\ ops' = IF state.has_focus
              THEN render_frame(state) \o render_frame(state)
              ELSE <<>>
    /\ pc' = "poll"
    /\ initResult' = "none"
    /\ consumed' = -1
    /\ UNCHANGED <<state, egl, destroyRequested, queue, cur,
                   sinceLost>>

\* if (state.has_focus) render_frame(&state);
Render ==
    /\ pc = "render"
    /\ ops' = IF state.has_focus THEN render_frame(state) ELSE <<>>
    /\ pc' = "poll"
    /\ initResult' = "none"
    /\ consumed' = -1
    /\ UNCHANGED <<state, egl, destroyRequested, queue, cur,
                   sinceLost>>

\* the steps of the application thread
LoopNext ==
    \/ PollItem
    \/ PollTimedOut
    \/ ProcessCmd
    \/ ProcessInput
    \/ ProcessNone
    \/ CheckDestroy
    \/ Render

Next ==
    \/ HostDeliver
    \/ LoopNext

Spec == Init /\ [][Next]_vars

\* ------------------------------------------------------------ type check
TypeOK ==
    /\ state.display \in {NONE, DefaultDisplay}
    /\ state.surface \in {NONE} \cup Handles
    /\ state.context \in {NONE} \cup Handles
    /\ state.initialized \in BOOLEAN
    /\ state.has_focus \in BOOLEAN
    /\ egl.surfaces \subseteq Handles
    /\ egl.contexts \subseteq Handles
    /\ destroyRequested \in BOOLEAN
    /\ Len(queue) <= MaxQueue
    /\ pc \in {"poll", "process", "check", "render", "done"}
    /\ cur \in Items \cup InputEvents \cup {NoItem}
    /\ initResult \in {"none", "ok", "failed"}
    /\ consumed \in {-1, 0, 1}
    /\ sinceLost \in BOOLEAN

\* ------------------------------------------------------------ observers
\* number of frames presented by the calls recorded in o
Frames(o) == Cardinality({i \in 1..Len(o) : o[i] = "eglSwapBuffers"})

\* the draw calls of render_frame
DrawCalls == {"glClearColor", "glClear", "eglSwapBuffers"}
Draws(o) == {i \in 1..Len(o) : o[i] \in DrawCalls}

AllNone(s) == s.display = NONE /\ s.surface = NONE /\ s.context = NONE
AllHeld(s) == s.display # NONE /\ s.surface # NONE /\ s.context # NONE

\* the calls of a release that holds all three handles
FullRelease ==
    <<"eglMakeCurrent", "eglDestroyContext", "eglDestroySurface",
      "eglTerminate">>

\* a step of the application thread (the host only appends to queue)
LoopStep == pc' # pc

\* the step dispatches APP_CMD_LOST_FOCUS
LostFocusDispatch == pc = "process" /\ cur = "APP_CMD_LOST_FOCUS" /\ LoopStep

\* -------------------------------------------------------------------- C1
\* C1: between command dispatches, initialized implies that display, surface
\* and context are all held, and not initialized implies that all three are
\* none.
C1_HandlesMatchInitialized ==
    /\ state.initialized => AllHeld(state)
    /\ ~state.initialized => AllNone(state)

\* -------------------------------------------------------------------- C2
\* C2: whenever init_display fails, it returns with all three handles none,
\* initialized false and the connection it opened closed again.
C2_AcquireAllOrNothing ==
    initResult = "failed" =>
        /\ AllNone(state)
        /\ ~state.initialized
        /\ ~egl.open

\* -------------------------------------------------------------------- C3
\* C3: the latest step presented a frame only if the surface is initialized,
\* destroy is not requested, and either the step is the render of the outer
\* loop with has_focus true or it is the dispatch of APP_CMD_LOST_FOCUS,
\* which presents exactly one frame.
C3_FramesOnlyWhenPermitted ==
    Frames(ops) > 0 =>
        /\ state.initialized
        /\ ~destroyRequested
        /\ \/ pc = "poll" /\ state.has_focus /\ cur = NoItem
           \/ pc = "check" /\ cur = "APP_CMD_LOST_FOCUS" /\ Frames(ops) = 1

C3_Witness ==
    /\ Frames(ops) = 1
    /\ pc = "poll"
    /\ state.has_focus

\* -------------------------------------------------------------------- C4
\* C4: a step that calls render_frame while initialized is false issues no
\* call, and leaves the AppState (apart from the has_focus assignment that
\* precedes the call in the APP_CMD_LOST_FOCUS branch) and the provider
\* unchanged.
C4_PresentNoOpWhenUninitialized ==
    [][((LostFocusDispatch \/ (pc = "render" /\ state.has_focus /\ LoopStep))
            /\ ~state.initialized)
        => /\ ops' = <<>>
           /\ egl' = egl
           /\ state' = [state EXCEPT !.has_focus = (pc = "render")]]_vars

\* render_frame was called after a release: nothing was drawn
C4_Witness ==
    /\ pc = "check"
    /\ cur = "APP_CMD_LOST_FOCUS"
    /\ ~state.initialized
    /\ state.width # 0
    /\ AllNone(state)
    /\ ops = <<>>

\* -------------------------------------------------------------------- C5
\* C5: from every reachable state, a second terminate_display right after a
\* first one changes nothing and issues no call.
C5_ReleaseIdempotent ==
    LET r1 == terminate_display(state, egl)
        r2 == terminate_display(r1.state, r1.egl)
    IN  /\ r2.state = r1.state
        /\ r2.egl = r1.egl
        /\ r2.ops = <<>>

\* a surface was created and everything created has been released, and the
\* release on exit that followed issued nothing
C5_Witness ==
    /\ pc = "done"
    /\ ops = <<>>
    /\ state.width # 0
    /\ AllNone(state)
    /\ egl = Egl0
    /\ terminate_display(state, egl).ops = <<>>

\* -------------------------------------------------------------------- C6
\* C6 as stated: the dispatch of APP_CMD_LOST_FOCUS on an initialized
\* surface presents exactly one frame and leaves has_focus false; from then
\* until APP_CMD_GAINED_FOCUS is dispatched no step presents a frame and
\* every poll is blocking: it returns only with an item.
C6_NoFrameAfterFocusLost ==
    [][/\ (LostFocusDispatch /\ state.initialized)
            => (Frames(ops') = 1 /\ ~state'.has_focus)
       /\ (sinceLost /\ LoopStep) => Frames(ops') = 0
       /\ (sinceLost /\ pc = "poll" /\ LoopStep) => pc' = "process"]_vars

\* C6 amended: the dispatch of APP_CMD_LOST_FOCUS on an initialized surface
\* presents exactly one frame and leaves has_focus false; from then until
\* APP_CMD_GAINED_FOCUS is dispatched every poll is blocking and no step
\* presents a frame, except the dispatch of a further APP_CMD_LOST_FOCUS,
\* which presents its own forced frame.
C6_ForcedFrameOnFocusLost ==
    [][/\ (LostFocusDispatch /\ state.initialized)
            => (Frames(ops') = 1 /\ ~state'.has_focus)
       /\ (sinceLost /\ LoopStep /\ ~LostFocusDispatch) => Frames(ops') = 0
       /\ (sinceLost /\ pc = "poll" /\ LoopStep) => pc' = "process"]_vars

\* the forced frame has been presented and focus is gone
C6_Witness ==
    /\ pc = "check"
    /\ cur = "APP_CMD_LOST_FOCUS"
    /\ Frames(ops) = 1
    /\ sinceLost
    /\ ~state.has_focus

\* -------------------------------------------------------------------- C7
\* C7: when APP_CMD_DESTROY has been processed while initialized is true,
\* the check that follows issues one full release (unbind, destroy context,
\* destroy surface, terminate) and ends the loop, and no step of the
\* application thread follows.
C7_DestroyReleasesOnce ==
    [][/\ (pc = "check" /\ cur = "APP_CMD_DESTROY" /\ state.initialized
              /\ LoopStep)
            => (ops' = FullRelease /\ pc' = "done")
       /\ pc = "done" => pc' = "done"]_vars

\* -------------------------------------------------------------------- C8
\* C8: once destroyRequested is set, no item is polled or dispatched to
\* handle_cmd / handle_input and render_frame is not called, whatever the
\* host has queued.
C8_NothingAfterDestroy ==
    [][destroyRequested
        => /\ ~(PollItem \/ PollTimedOut)
           /\ ~(ProcessCmd \/ ProcessInput \/ ProcessNone)
           /\ ~Render
           /\ Frames(ops') = 0]_vars

\* the loop has ended with items of the host left undelivered
C8_Witness ==
    /\ destroyRequested
    /\ pc = "done"
    /\ queue # <<>>

\* -------------------------------------------------------------------- C9
\* C9: a poll made while has_focus is true does not block: it returns, with
\* an item or empty-handed; a poll made while has_focus is false blocks: it
\* never returns empty-handed, so that with nothing delivered by the host
\* the application thread has no step to take.
C9_PollModeFollowsFocus ==
    /\ (pc = "poll" /\ state.has_focus) => ENABLED (PollItem \/ PollTimedOut)
    /\ pc = "render" => state.has_focus
    /\ (pc = "poll" /\ ~state.has_focus /\ queue = <<>>) => ~ENABLED LoopNext

\* the thread is suspended in a blocking poll after focus was lost
C9_Witness ==
    /\ pc = "poll"
    /\ sinceLost
    /\ ~state.has_focus
    /\ queue = <<>>
    /\ ~ENABLED LoopNext

\* ------------------------------------------------------------------- C10
\* C10: when the loop has ended, display, surface and context are none and
\* initialized is false.
C10_ReleasedAtExit ==
    pc = "done" => (AllNone(state) /\ ~state.initialized)

\* the loop ended after a failed init_display: the release on exit closed
\* the connection that was left open
C10_Witness ==
    /\ pc = "done"
    /\ ops = <<"eglMakeCurrent", "eglTerminate">>
    /\ state.width = 0
    /\ AllNone(state)

\* the step dispatches command c to handle_cmd
Dispatch(c) == pc = "process" /\ cur = c /\ LoopStep

\* ------------------------------------------------------------------- C11
\* C11: the dispatch of APP_CMD_TERM_WINDOW leaves display, surface and
\* context none and initialized false, and with all three handles held it
\* issues the full release and gives the surface and the context back to
\* the provider; every init_display that succeeds, the first one or one that
\* follows earlier create / release rounds, leaves initialized true with all
\* three handles held and alive.
C11_ReleaseThenRecreate ==
    [][/\ Dispatch("APP_CMD_TERM_WINDOW")
            => /\ AllNone(state') /\ ~state'.initialized
               /\ AllHeld(state)
                    => /\ ops' = FullRelease
                       /\ state.surface \notin egl'.surfaces
                       /\ state.context \notin egl'.contexts
                       /\ ~egl'.open
       /\ (Dispatch("APP_CMD_INIT_WINDOW") /\ initResult' = "ok")
            => /\ state'.initialized /\ AllHeld(state')
               /\ state'.surface \in egl'.surfaces
               /\ state'.context \in egl'.contexts
               /\ egl'.open]_vars

\* a surface that was created has been released by APP_CMD_TERM_WINDOW, and
\* the provider has every handle free for the next init_display
C11_Witness ==
    /\ pc = "check"
    /\ cur = "APP_CMD_TERM_WINDOW"
    /\ ops = FullRelease
    /\ state.width # 0
    /\ AllNone(state)
    /\ ~state.initialized
    /\ egl = Egl0
    /\ init_display(state, egl, 0, <<1920, 1200>>).ret

\* ------------------------------------------------------------------- C12
\* C12: after an init_display that fails on APP_CMD_INIT_WINDOW, initialized
\* is false and the loop goes on to the next poll; init_display is called by
\* no step other than the dispatch of APP_CMD_INIT_WINDOW.
C12_FailedAcquireNotFatal ==
    [][/\ (Dispatch("APP_CMD_INIT_WINDOW") /\ initResult' = "failed")
            => (~state'.initialized /\ pc' = "check" /\ ~destroyRequested')
       /\ (pc = "check" /\ initResult = "failed" /\ LoopStep) => pc' = "poll"
       /\ (LoopStep /\ \E i \in 1..Len(ops') : ops'[i] = "eglGetDisplay")
            => Dispatch("APP_CMD_INIT_WINDOW")]_vars

\* ------------------------------------------------------------------- C13
\* C13: the loop ends only in a step that finds destroyRequested set, and
\* destroyRequested is set only by the processing of APP_CMD_DESTROY; no
\* failed init_display, empty-handed poll, other command or input event ends
\* the loop.
C13_OnlyDestroyEndsLoop ==
    [][/\ (pc' = "done" /\ pc # "done") => (pc = "check" /\ destroyRequested)
       /\ (destroyRequested' /\ ~destroyRequested)
            => Dispatch("APP_CMD_DESTROY")]_vars

\* the loop has ended after init_display calls that failed or leaked
C13_Witness ==
    /\ pc = "done"
    /\ destroyRequested
    /\ egl.surfaces # {}

\* ------------------------------------------------------------------- C14
\* C14: the inner loop is left for the render step only by a poll that finds
\* nothing pending, with has_focus true and destroy not requested; the
\* render step then calls render_frame once if has_focus is true (one frame
\* on an initialized surface, no call issued otherwise) and not at all if
\* it is false, and goes back to the poll.
C14_OneRenderPerIteration ==
    [][/\ (pc' = "render" /\ pc # "render")
            => /\ pc = "poll" /\ queue = <<>>
               /\ state.has_focus /\ ~destroyRequested
       /\ (pc = "render" /\ LoopStep)
            => /\ pc' = "poll"
               /\ state' = state
               /\ ops' = IF state.has_focus /\ state.initialized
                         THEN <<"glClearColor", "glClear", "eglSwapBuffers">>
                         ELSE <<>>]_vars

\* the render step of an iteration has presented its one frame and the
\* thread is back at the poll
C14_Witness ==
    /\ pc = "poll"
    /\ cur = NoItem
    /\ queue = <<>>
    /\ ~destroyRequested
    /\ state.has_focus
    /\ state.initialized
    /\ ops = <<"glClearColor", "glClear", "eglSwapBuffers">>

\* ------------------------------------------------------------------- C15
\* the application thread is scheduled fairly: a step it can take for ever
\* is taken; nothing is assumed of the host
FairSpec == Spec /\ WF_vars(LoopNext)

\* the surface is initialized, the window focused, destroy not requested
Focused == state.initialized /\ state.has_focus /\ ~destroyRequested

\* a step of the application thread that presents a frame
FrameStep == LoopStep /\ Frames(ops') > 0

C16_FocusOnlyByFocusCommands ==
    /\ ~state.has_focus
    /\ [][/\ Dispatch("APP_CMD_GAINED_FOCUS")
               => /\ state' = [state EXCEPT !.has_focus = TRUE]
                  /\ egl' = egl
                  /\ ops' = <<>>
          /\ Dispatch("APP_CMD_LOST_FOCUS")
               => /\ state' = [state EXCEPT !.has_focus = FALSE]
                  /\ egl' = egl
          /\ state'.has_focus # state.has_focus
               => \/ Dispatch("APP_CMD_GAINED_FOCUS")
                  \/ Dispatch("APP_CMD_LOST_FOCUS")]_vars

\* focus was gained on an initialized surface without a frame being forced
C16_Witness ==
    /\ pc = "check"
    /\ cur = "APP_CMD_GAINED_FOCUS"
    /\ state.has_focus
    /\ state.initialized
    /\ ops = <<>>

\* ------------------------------------------------------------------- C17
\* C17: the dispatch of APP_CMD_PAUSE or APP_CMD_RESUME leaves the AppState
\* and the provider unchanged and issues no call.
C17_PauseResumeInert ==
    [][(Dispatch("APP_CMD_PAUSE") \/ Dispatch("APP_CMD_RESUME"))
        => /\ state' = state
           /\ egl' = egl
           /\ ops' = <<>>
           /\ initResult' = "none"
           /\ destroyRequested' = destroyRequested]_vars

\* APP_CMD_PAUSE was dispatched on an initialized, focused surface
C17_Witness ==
    /\ pc = "check"
    /\ cur = "APP_CMD_PAUSE"
    /\ state.initialized
    /\ state.has_focus
    /\ AllHeld(state)
    /\ ops = <<>>

\* ------------------------------------------------------------------- C18
\* C18: handle_input has returned 1 for the motion event it was given,
\* whatever its action, and 0 for an event of another type; the step that
\* dispatches an input event leaves the AppState and the provider unchanged
\* and issues no call.
C18_InputRoutingStateless ==
    /\ [](pc = "check" /\ cur \in InputEvents
            => consumed = (IF cur = "KEY" THEN 0 ELSE 1))
    /\ [][(pc = "process" /\ cur = "INPUT" /\ LoopStep)
            => /\ cur' \in InputEvents
               /\ state' = state
               /\ egl' = egl
               /\ ops' = <<>>
               /\ initResult' = "none"
               /\ destroyRequested' = destroyRequested]_vars

\* a motion event with an action code handle_input does not know was
\* consumed on an initialized, focused surface
C18_Witness ==
    /\ pc = "check"
    /\ cur = "MOTION_OTHER"
    /\ consumed = 1
    /\ state.initialized
    /\ state.has_focus

\* ------------------------------------------------------------------- C19
\* C19: every surface and context alive in the provider is the one the
\* AppState holds and an open connection has its display stored, so that
\* nothing alive is lost and at most one of each is alive; and
\* APP_CMD_INIT_WINDOW comes up for dispatch, where init_display may be
\* entered, only with display, surface and context all none.
C19_NoLiveHandleLost ==
    /\ egl.surfaces \subseteq {state.surface}
    /\ egl.contexts \subseteq {state.context}
    /\ egl.open => state.display # NONE
    /\ Cardinality(egl.surfaces) <= 1
    /\ Cardinality(egl.contexts) <= 1
    /\ (pc = "process" /\ cur = "APP_CMD_INIT_WINDOW") => AllNone(state)

\* ------------------------------------------------------------------- C20
\* C20: in every reachable state, handle_cmd given APP_CMD_INIT_WINDOW with
\* app->window null calls nothing and returns the AppState and the provider
\* as they were, whatever the provider would have answered.
C20_NullWindowIgnored ==
    \A f \in FailSteps, dim \in Dims :
        LET r == handle_cmd(state, egl, NONE, "APP_CMD_INIT_WINDOW", f, dim)
        IN  /\ r.state = state
            /\ r.egl = egl
            /\ r.ops = <<>>
            /\ r.init = "none"

\* APP_CMD_INIT_WINDOW was dispatched with a null window on a released
\* surface: init_display was not called and nothing is held
C20_Witness ==
    /\ pc = "check"
    /\ cur = "APP_CMD_INIT_WINDOW"
    /\ initResult = "none"
    /\ ops = <<>>
    /\ state.width # 0
    /\ AllNone(state)
    /\ ~state.initialized

=============================================================================
